---- MODULE Spec2Model ----
(***************************************************************************)
(* A model of the nucypher-core message objects: the treasure map          *)
(* sign / bind / encrypt protocol, the signed node metadata and metadata   *)
(* response, the retrieval kit, and the versioned envelope they share.     *)
(*                                                                         *)
(* Byte strings are sequences of naturals.  The umbral_pre primitives are  *)
(* modelled symbolically: a signature names the key that made it and the   *)
(* message it covers, a ciphertext names the key it was sealed for.        *)
(***************************************************************************)
EXTENDS Integers, Sequences, FiniteSets, TLC

\* ------------------------------------------------------------------ bounds
NumKeys == 2
MaxAssign == 3
MaxThreshold == 3

KeyIds == 1..NumKeys
Signers == [key : KeyIds]
SecretKeys == [secret : KeyIds]
Addresses == {1, 2}
HRACs == {7}
PolicyKeys == {1}
\* (address, ursula encrypting key, verified key fragment)
Assignments == {<<a, 1, a + 10>> : a \in Addresses}

RECURSIVE SeqsUpTo(_, _)
SeqsUpTo(S, n) ==
    IF n = 0 THEN {<<>>}
    ELSE LET shorter == SeqsUpTo(S, n - 1)
         IN  shorter \cup {Append(s, x) : s \in {t \in shorter : Len(t) = n - 1}, x \in S}

\* ------------------------------------------------------ Rust result shapes
None == [kind |-> "None"]
Some(v) == [kind |-> "Some", val |-> v]
Ok(v) == [kind |-> "Ok", val |-> v]
Err(e) == [kind |-> "Err", err |-> e]
Panic == [kind |-> "Panic"]
NotYet == [kind |-> "NotYet"]

\* -------------------------------------------------- umbral_pre primitives
verifying_key(signer) == signer.key

public_key(sk) == sk.secret

sign(signer, message) == [by |-> verifying_key(signer), over |-> message]

signature_verify(signature, pk, message) ==
    signature.by = pk /\ signature.over = message

\* encrypt() may fail with EncryptionError; `ok` is the primitive's outcome.
encrypt(pk, plaintext, ok) ==
    IF ok THEN Ok([capsule |-> [for |-> pk],
                   ciphertext |-> [under |-> pk, data |-> plaintext]])
    ELSE Err("EncryptionError")

decrypt_original(sk, capsule, ciphertext) ==
    IF capsule.for = public_key(sk) /\ ciphertext.under = capsule.for
    THEN Ok(ciphertext.data)
    ELSE Err("DecryptionError")

EncryptedKeyFrag_new(signer, recipient_key, hrac, verified_kfrag) ==
    Ok([for |-> recipient_key, hrac |-> hrac, by |-> verifying_key(signer),
        kfrag |-> verified_kfrag])

\* ------------------------------------------------------ versioned envelope
SubSeqFrom(s, i) == SubSeq(s, i, Len(s))

HeaderLen == 6

\* brand (4 bytes) || major || minor || unversioned bytes
to_bytes(brand, version, unversioned) == brand \o version \o unversioned

header_minor(bytes) == bytes[HeaderLen]

header_payload(bytes) == SubSeqFrom(bytes, HeaderLen + 1)

\* `hooked` is the type's unversioned_from_bytes(header_minor, header_payload),
\* which is looked at only once the brand and the major version have matched
from_bytes(brand, version, hooked, bytes) ==
    IF SubSeq(bytes, 1, 4) # brand THEN Err("BrandMismatch")
    ELSE IF bytes[5] # version[1] THEN Err("MajorVersionMismatch")
    ELSE IF hooked.kind = "None" THEN Err("MinorVersionTooNew")
    ELSE IF hooked.val.kind = "Err" THEN Err("DeserializationError")
    ELSE Ok(hooked.val.val)

\* ---------------------------------------------------- messagepack pieces
signature_ser(signature) == <<signature.by, Len(signature.over)>> \o signature.over

ekf_ser(ekf) == <<ekf.for, ekf.hrac, ekf.by, ekf.kfrag>>

ekf_de(b) == [for |-> b[1], hrac |-> b[2], by |-> b[3], kfrag |-> b[4]]

RECURSIVE destinations_ser(_)
destinations_ser(ds) ==
    IF ds = <<>> THEN <<>>
    ELSE <<Head(ds)[1]>> \o ekf_ser(Head(ds)[2]) \o destinations_ser(Tail(ds))

DestWidth == 5

destinations_de(b, n) ==
    [i \in 1..n |-> <<b[(i - 1) * DestWidth + 1],
                      ekf_de(SubSeq(b, (i - 1) * DestWidth + 2, i * DestWidth))>>]

\* ------------------------------------------------------------ TreasureMap
TMapBrand == <<84, 77, 97, 112>>
TMapVersion == <<1, 0>>

TreasureMap_new_Strict(signer, hrac, policy_encrypting_key, assigned_kfrags, threshold) ==
    IF threshold = 0 THEN Panic
    ELSE IF ~(Len(assigned_kfrags) > threshold) THEN Panic
    ELSE LET sealed(i) == EncryptedKeyFrag_new(signer, assigned_kfrags[i][2], hrac,
                                               assigned_kfrags[i][3])
         IN  [kind |-> "Map",
              map |-> [threshold |-> threshold,
                       hrac |-> hrac,
                       destinations |-> [i \in 1..Len(assigned_kfrags) |->
                                            <<assigned_kfrags[i][1], sealed(i).val>>],
                       policy_encrypting_key |-> policy_encrypting_key,
                       publisher_verifying_key |-> verifying_key(signer)]]

TreasureMap_new(signer, hrac, policy_encrypting_key, assigned_kfrags, threshold) ==
    IF threshold = 0 THEN Panic
    ELSE IF ~(Len(assigned_kfrags) >= threshold) THEN Panic
    ELSE LET sealed(i) == EncryptedKeyFrag_new(signer, assigned_kfrags[i][2], hrac,
                                               assigned_kfrags[i][3])
         IN  IF \E i \in 1..Len(assigned_kfrags) : sealed(i).kind # "Ok" THEN Panic
             ELSE [kind |-> "Map",
                   map |-> [threshold |-> threshold,
                            hrac |-> hrac,
                            destinations |-> [i \in 1..Len(assigned_kfrags) |->
                                                 <<assigned_kfrags[i][1], sealed(i).val>>],
                            policy_encrypting_key |-> policy_encrypting_key,
                            publisher_verifying_key |-> verifying_key(signer)]]

TreasureMap_unversioned_to_bytes(m) ==
    <<m.threshold, m.hrac, Len(m.destinations)>>
        \o destinations_ser(m.destinations)
        \o <<m.policy_encrypting_key, m.publisher_verifying_key>>

TreasureMap_deserialize(b) ==
    IF Len(b) < 3 THEN Err("eof")
    ELSE LET n == b[3]
             end == 3 + n * DestWidth
         IN  IF Len(b) # end + 2 THEN Err("length")
             ELSE Ok([threshold |-> b[1],
                      hrac |-> b[2],
                      destinations |-> destinations_de(SubSeq(b, 4, end), n),
                      policy_encrypting_key |-> b[end + 1],
                      publisher_verifying_key |-> b[end + 2]])

\* also takes the next minor version
TreasureMap_unversioned_from_bytes_Lenient(minor_version, bytes) ==
    IF minor_version <= 1 THEN Some(TreasureMap_deserialize(bytes)) ELSE None

TreasureMap_unversioned_from_bytes(minor_version, bytes) ==
    IF minor_version = 0 THEN Some(TreasureMap_deserialize(bytes)) ELSE None

TreasureMap_to_bytes(m) ==
    to_bytes(TMapBrand, TMapVersion, TreasureMap_unversioned_to_bytes(m))

TreasureMap_from_bytes(bytes) ==
    from_bytes(TMapBrand, TMapVersion,
               TreasureMap_unversioned_from_bytes(header_minor(bytes), header_payload(bytes)), bytes)

\* -------------------------------------------------- AuthorizedTreasureMap
AMapBrand == <<65, 77, 97, 112>>
AMapVersion == <<1, 0>>

AuthorizedTreasureMap_new_Unbound(signer, recipient_key, treasure_map) ==
    [signature |-> sign(signer, TreasureMap_to_bytes(treasure_map)),
     treasure_map |-> treasure_map]

AuthorizedTreasureMap_new(signer, recipient_key, treasure_map) ==
    LET message == <<recipient_key>> \o TreasureMap_to_bytes(treasure_map)
    IN  [signature |-> sign(signer, message),
         treasure_map |-> treasure_map]

AuthorizedTreasureMap_verify_CrossChecked(auth, recipient_key, publisher_verifying_key) ==
    LET message == <<recipient_key>> \o TreasureMap_to_bytes(auth.treasure_map)
    IN  IF ~signature_verify(auth.signature, publisher_verifying_key, message) THEN None
        ELSE IF auth.treasure_map.publisher_verifying_key # publisher_verifying_key THEN None
        ELSE Some(auth.treasure_map)

AuthorizedTreasureMap_verify(auth, recipient_key, publisher_verifying_key) ==
    LET message == <<recipient_key>> \o TreasureMap_to_bytes(auth.treasure_map)
    IN  IF ~signature_verify(auth.signature, publisher_verifying_key, message) THEN None
        ELSE Some(auth.treasure_map)

AuthorizedTreasureMap_unversioned_to_bytes(auth) ==
    signature_ser(auth.signature) \o TreasureMap_unversioned_to_bytes(auth.treasure_map)

AuthorizedTreasureMap_deserialize(b) ==
    IF Len(b) < 2 \/ Len(b) < 2 + b[2] THEN Err("eof")
    ELSE LET inner == TreasureMap_deserialize(SubSeqFrom(b, 3 + b[2]))
         IN  IF inner.kind = "Err" THEN inner
             ELSE Ok([signature |-> [by |-> b[1], over |-> SubSeq(b, 3, 2 + b[2])],
                      treasure_map |-> inner.val])

AuthorizedTreasureMap_unversioned_from_bytes(minor_version, bytes) ==
    IF minor_version = 0 THEN Some(AuthorizedTreasureMap_deserialize(bytes)) ELSE None

AuthorizedTreasureMap_to_bytes(auth) ==
    to_bytes(AMapBrand, AMapVersion, AuthorizedTreasureMap_unversioned_to_bytes(auth))

AuthorizedTreasureMap_from_bytes(bytes) ==
    from_bytes(AMapBrand, AMapVersion,
               AuthorizedTreasureMap_unversioned_from_bytes(header_minor(bytes), header_payload(bytes)), bytes)

\* --------------------------------------------------- EncryptedTreasureMap
EncryptedTreasureMap_new(signer, recipient_key, treasure_map, ok) ==
    LET authorized_tmap == AuthorizedTreasureMap_new(signer, recipient_key, treasure_map)
    IN  encrypt(recipient_key, AuthorizedTreasureMap_to_bytes(authorized_tmap), ok)

TreasureMap_encrypt(treasure_map, signer, recipient_key, ok) ==
    EncryptedTreasureMap_new(signer, recipient_key, treasure_map, ok)

\* verifies against the recipient key found in the signed binding
EncryptedTreasureMap_decrypt_TrustPayload(e, sk, publisher_verifying_key) ==
    LET plaintext == decrypt_original(sk, e.capsule, e.ciphertext)
    IN  IF plaintext.kind = "Err" THEN Panic
        ELSE LET auth_tmap == AuthorizedTreasureMap_from_bytes(plaintext.val)
             IN  IF auth_tmap.kind = "Err" THEN Panic
                 ELSE AuthorizedTreasureMap_verify(auth_tmap.val,
                                                   Head(auth_tmap.val.signature.over),
                                                   publisher_verifying_key)

EncryptedTreasureMap_decrypt(e, sk, publisher_verifying_key) ==
    LET plaintext == decrypt_original(sk, e.capsule, e.ciphertext)
    IN  IF plaintext.kind = "Err" THEN Panic
        ELSE LET auth_tmap == AuthorizedTreasureMap_from_bytes(plaintext.val)
             IN  IF auth_tmap.kind = "Err" THEN Panic
                 ELSE AuthorizedTreasureMap_verify(auth_tmap.val, public_key(sk),
                                                   publisher_verifying_key)

\* ------------------------------------------------- messagepack cursor reads
Fail == [ok |-> FALSE, val |-> 0, next |-> 0]

ReadInt(b, i) ==
    IF i > Len(b) THEN Fail ELSE [ok |-> TRUE, val |-> b[i], next |-> i + 1]

\* a length-prefixed string or byte blob
bytes_ser(s) == <<Len(s)>> \o s

ReadBytes(b, i) ==
    IF i > Len(b) \/ i + b[i] > Len(b) THEN Fail
    ELSE [ok |-> TRUE, val |-> SubSeq(b, i + 1, i + b[i]), next |-> i + b[i] + 1]

\* an optional blob: nil, or the blob
option_bytes_ser_Flat(o) == IF o.kind = "None" THEN <<0>> ELSE IF o.val = <<>> THEN <<0>> ELSE <<1>> \o bytes_ser(o.val)

option_bytes_ser(o) == IF o.kind = "None" THEN <<0>> ELSE <<1>> \o bytes_ser(o.val)

ReadOptionBytes(b, i) ==
    IF i > Len(b) THEN Fail
    ELSE IF b[i] = 0 THEN [ok |-> TRUE, val |-> None, next |-> i + 1]
    ELSE IF b[i] = 1
         THEN LET r == ReadBytes(b, i + 1)
              IN  IF r.ok THEN [ok |-> TRUE, val |-> Some(r.val), next |-> r.next] ELSE Fail
    ELSE Fail

ReadSignature(b, i) ==
    IF i + 1 > Len(b) \/ i + 1 + b[i + 1] > Len(b) THEN Fail
    ELSE [ok |-> TRUE,
          val |-> [by |-> b[i], over |-> SubSeq(b, i + 2, i + 1 + b[i + 1])],
          next |-> i + 2 + b[i + 1]]

\* a cursor read that must consume the whole buffer
Whole(b, r) == IF r.ok /\ r.next = Len(b) + 1 THEN Ok(r.val) ELSE Err("malformed")

\* ---------------------------------------------------- NodeMetadataPayload
NodeMetadataPayload_to_bytes(p) ==
    <<p.canonical_address>> \o bytes_ser(p.domain)
        \o <<p.timestamp_epoch, p.verifying_key, p.encrypting_key>>
        \o bytes_ser(p.certificate_bytes) \o bytes_ser(p.host) \o <<p.port>>
        \o option_bytes_ser(p.decentralized_identity_evidence)

ReadNodeMetadataPayload(b, i) ==
    LET address == ReadInt(b, i)
        domain == ReadBytes(b, address.next)
        timestamp == ReadInt(b, domain.next)
        vk == ReadInt(b, timestamp.next)
        ek == ReadInt(b, vk.next)
        cert == ReadBytes(b, ek.next)
        host == ReadBytes(b, cert.next)
        port == ReadInt(b, host.next)
        evidence == ReadOptionBytes(b, port.next)
    IN  IF address.ok /\ domain.ok /\ timestamp.ok /\ vk.ok /\ ek.ok /\ cert.ok
            /\ host.ok /\ port.ok /\ evidence.ok
        THEN [ok |-> TRUE,
              val |-> [canonical_address |-> address.val,
                       domain |-> domain.val,
                       timestamp_epoch |-> timestamp.val,
                       verifying_key |-> vk.val,
                       encrypting_key |-> ek.val,
                       certificate_bytes |-> cert.val,
                       host |-> host.val,
                       port |-> port.val,
                       decentralized_identity_evidence |-> evidence.val],
              next |-> evidence.next]
        ELSE Fail

\* ----------------------------------------------------------- NodeMetadata
NdMdBrand == <<78, 100, 77, 100>>
NdMdVersion == <<1, 0>>

NodeMetadata_new(signer, payload) ==
    [signature |-> sign(signer, NodeMetadataPayload_to_bytes(payload)),
     payload |-> payload]

\* checks the signature under the key that made it
NodeMetadata_verify_AnyKey(nm) ==
    signature_verify(nm.signature, nm.signature.by, NodeMetadataPayload_to_bytes(nm.payload))

NodeMetadata_verify(nm) ==
    signature_verify(nm.signature, nm.payload.verifying_key,
                     NodeMetadataPayload_to_bytes(nm.payload))

NodeMetadata_serialize(nm) ==
    signature_ser(nm.signature) \o NodeMetadataPayload_to_bytes(nm.payload)

NodeMetadata_unversioned_to_bytes(nm) == NodeMetadata_serialize(nm)

ReadNodeMetadata(b, i) ==
    LET sig == ReadSignature(b, i)
        payload == ReadNodeMetadataPayload(b, sig.next)
    IN  IF sig.ok /\ payload.ok
        THEN [ok |-> TRUE, val |-> [signature |-> sig.val, payload |-> payload.val],
              next |-> payload.next]
        ELSE Fail

NodeMetadata_unversioned_from_bytes(minor_version, bytes) ==
    IF minor_version = 0 THEN Some(Whole(bytes, ReadNodeMetadata(bytes, 1))) ELSE None

NodeMetadata_to_bytes(nm) ==
    to_bytes(NdMdBrand, NdMdVersion, NodeMetadata_unversioned_to_bytes(nm))

NodeMetadata_from_bytes(bytes) ==
    from_bytes(NdMdBrand, NdMdVersion,
               NodeMetadata_unversioned_from_bytes(header_minor(bytes), header_payload(bytes)), bytes)

RECURSIVE nodes_ser(_)
nodes_ser(nodes) ==
    IF nodes = <<>> THEN <<>>
    ELSE NodeMetadata_serialize(Head(nodes)) \o nodes_ser(Tail(nodes))

announce_nodes_ser(nodes) == <<Len(nodes)>> \o nodes_ser(nodes)

RECURSIVE ReadNodes(_, _, _)
ReadNodes(b, i, n) ==
    IF n = 0 THEN [ok |-> TRUE, val |-> <<>>, next |-> i]
    ELSE LET first == ReadNodeMetadata(b, i)
         IN  IF ~first.ok THEN Fail
             ELSE LET more == ReadNodes(b, first.next, n - 1)
                  IN  IF ~more.ok THEN Fail
                      ELSE [ok |-> TRUE, val |-> <<first.val>> \o more.val,
                            next |-> more.next]

ReadAnnounceNodes(b, i) ==
    LET n == ReadInt(b, i) IN IF n.ok THEN ReadNodes(b, n.next, n.val) ELSE Fail

\* -------------------------------------------------------- MetadataRequest
MdRqBrand == <<77, 100, 82, 113>>
MdRqVersion == <<1, 0>>

MetadataRequest_new(fleet_state_checksum, announce_nodes) ==
    [fleet_state_checksum |-> fleet_state_checksum, announce_nodes |-> announce_nodes]

MetadataRequest_unversioned_to_bytes(rq) ==
    <<rq.fleet_state_checksum>> \o announce_nodes_ser(rq.announce_nodes)

ReadMetadataRequest(b, i) ==
    LET checksum == ReadInt(b, i)
        nodes == ReadAnnounceNodes(b, checksum.next)
    IN  IF checksum.ok /\ nodes.ok
        THEN [ok |-> TRUE,
              val |-> [fleet_state_checksum |-> checksum.val, announce_nodes |-> nodes.val],
              next |-> nodes.next]
        ELSE Fail

MetadataRequest_unversioned_from_bytes(minor_version, bytes) ==
    IF minor_version = 0 THEN Some(Whole(bytes, ReadMetadataRequest(bytes, 1))) ELSE None

MetadataRequest_to_bytes(rq) ==
    to_bytes(MdRqBrand, MdRqVersion, MetadataRequest_unversioned_to_bytes(rq))

MetadataRequest_from_bytes(bytes) ==
    from_bytes(MdRqBrand, MdRqVersion,
               MetadataRequest_unversioned_from_bytes(header_minor(bytes), header_payload(bytes)), bytes)

\* ------------------------------------------------------- MetadataResponse
MdRsBrand == <<77, 100, 82, 115>>
MdRsVersion == <<1, 0>>

VerifiedMetadataResponse_new(timestamp_epoch, announce_nodes) ==
    [timestamp_epoch |-> timestamp_epoch, announce_nodes |-> announce_nodes]

\* signs the node list alone
VerifiedMetadataResponse_to_bytes_NodesOnly(r) == announce_nodes_ser(r.announce_nodes)

VerifiedMetadataResponse_to_bytes(r) ==
    <<r.timestamp_epoch>> \o announce_nodes_ser(r.announce_nodes)

MetadataResponse_new(signer, response) ==
    [signature |-> sign(signer, VerifiedMetadataResponse_to_bytes(response)),
     response |-> response]

MetadataResponse_verify(mr, verifying_pk) ==
    IF signature_verify(mr.signature, verifying_pk,
                        VerifiedMetadataResponse_to_bytes(mr.response))
    THEN Some(mr.response)
    ELSE None

MetadataResponse_unversioned_to_bytes(mr) ==
    signature_ser(mr.signature) \o VerifiedMetadataResponse_to_bytes(mr.response)

ReadMetadataResponse(b, i) ==
    LET sig == ReadSignature(b, i)
        timestamp == ReadInt(b, sig.next)
        nodes == ReadAnnounceNodes(b, timestamp.next)
    IN  IF sig.ok /\ timestamp.ok /\ nodes.ok
        THEN [ok |-> TRUE,
              val |-> [signature |-> sig.val,
                       response |-> [timestamp_epoch |-> timestamp.val,
                                     announce_nodes |-> nodes.val]],
              next |-> nodes.next]
        ELSE Fail

MetadataResponse_unversioned_from_bytes(minor_version, bytes) ==
    IF minor_version = 0 THEN Some(Whole(bytes, ReadMetadataResponse(bytes, 1))) ELSE None

MetadataResponse_to_bytes(mr) ==
    to_bytes(MdRsBrand, MdRsVersion, MetadataResponse_unversioned_to_bytes(mr))

MetadataResponse_from_bytes(bytes) ==
    from_bytes(MdRsBrand, MdRsVersion,
               MetadataResponse_unversioned_from_bytes(header_minor(bytes), header_payload(bytes)), bytes)

\* ----------------------------------------------------------- RetrievalKit
RKitBrand == <<82, 75, 105, 116>>
RKitVersion == <<1, 0>>

\* BTreeSet::from_iter: insert the items one by one
RECURSIVE BTreeSet_from_iter(_)
BTreeSet_from_iter(items) ==
    IF items = <<>> THEN {}
    ELSE BTreeSet_from_iter(SubSeq(items, 1, Len(items) - 1)) \cup {items[Len(items)]}

\* a BTreeSet iterates in ascending order
RECURSIVE BTreeSet_iter(_)
BTreeSet_iter(S) ==
    IF S = {} THEN <<>>
    ELSE LET least == CHOOSE x \in S : \A y \in S : x <= y
         IN  <<least>> \o BTreeSet_iter(S \ {least})

RetrievalKit_from_message_kit(message_kit) ==
    [capsule |-> message_kit.capsule, queried_addresses |-> BTreeSet_from_iter(<<>>)]

\* keeps only the address queried last
RetrievalKit_new_LastOnly(capsule, queried_addresses) ==
    [capsule |-> capsule,
     queried_addresses |-> IF queried_addresses = <<>> THEN {}
                           ELSE {queried_addresses[Len(queried_addresses)]}]

RetrievalKit_new(capsule, queried_addresses) ==
    [capsule |-> capsule, queried_addresses |-> BTreeSet_from_iter(queried_addresses)]

capsule_ser(capsule) == <<capsule.for>>

RetrievalKit_unversioned_to_bytes(kit) ==
    capsule_ser(kit.capsule) \o bytes_ser(BTreeSet_iter(kit.queried_addresses))

ReadRetrievalKit(b, i) ==
    LET capsule == ReadInt(b, i)
        addresses == ReadBytes(b, capsule.next)
    IN  IF capsule.ok /\ addresses.ok
        THEN [ok |-> TRUE,
              val |-> [capsule |-> [for |-> capsule.val],
                       queried_addresses |-> BTreeSet_from_iter(addresses.val)],
              next |-> addresses.next]
        ELSE Fail

RetrievalKit_unversioned_from_bytes(minor_version, bytes) ==
    IF minor_version = 0 THEN Some(Whole(bytes, ReadRetrievalKit(bytes, 1))) ELSE None

RetrievalKit_to_bytes(kit) ==
    to_bytes(RKitBrand, RKitVersion, RetrievalKit_unversioned_to_bytes(kit))

RetrievalKit_from_bytes(bytes) ==
    from_bytes(RKitBrand, RKitVersion,
               RetrievalKit_unversioned_from_bytes(header_minor(bytes), header_payload(bytes)), bytes)

\* ------------------------------------- EncryptedTreasureMap on the wire
EMapBrand == <<69, 77, 97, 112>>
EMapVersion == <<1, 0>>

EncryptedTreasureMap_unversioned_to_bytes(e) ==
    capsule_ser(e.capsule) \o <<e.ciphertext.under>> \o bytes_ser(e.ciphertext.data)

ReadEncryptedTreasureMap(b, i) ==
    LET capsule == ReadInt(b, i)
        under == ReadInt(b, capsule.next)
        data == ReadBytes(b, under.next)
    IN  IF capsule.ok /\ under.ok /\ data.ok
        THEN [ok |-> TRUE,
              val |-> [capsule |-> [for |-> capsule.val],
                       ciphertext |-> [under |-> under.val, data |-> data.val]],
              next |-> data.next]
        ELSE Fail

EncryptedTreasureMap_unversioned_from_bytes(minor_version, bytes) ==
    IF minor_version = 0 THEN Some(Whole(bytes, ReadEncryptedTreasureMap(bytes, 1)))
    ELSE None

EncryptedTreasureMap_to_bytes(e) ==
    to_bytes(EMapBrand, EMapVersion, EncryptedTreasureMap_unversioned_to_bytes(e))

EncryptedTreasureMap_from_bytes(bytes) ==
    from_bytes(EMapBrand, EMapVersion,
               EncryptedTreasureMap_unversioned_from_bytes(header_minor(bytes), header_payload(bytes)), bytes)

\* ------------------------------------------------------------ input domains
MaxAnnounce == 2
MaxRecorded == 4

Timestamps == {0, 1}
Blobs == {<<>>, <<9>>}
Strings == {<<>>, <<104>>}
Ports == {80, 443}
Evidence == {None, Some(<<>>), Some(<<5>>)}

NodeMetadataPayloads ==
    [canonical_address : Addresses, domain : Strings, timestamp_epoch : Timestamps,
     verifying_key : KeyIds, encrypting_key : KeyIds, certificate_bytes : Blobs,
     host : Strings, port : Ports, decentralized_identity_evidence : Evidence]

PayloadFields ==
    {"canonical_address", "domain", "timestamp_epoch", "verifying_key", "encrypting_key",
     "certificate_bytes", "host", "port", "decentralized_identity_evidence"}

FieldDomain(f) ==
    CASE f = "canonical_address" -> Addresses
      [] f = "domain" -> Strings
      [] f = "timestamp_epoch" -> Timestamps
      [] f = "verifying_key" -> KeyIds
      [] f = "encrypting_key" -> KeyIds
      [] f = "certificate_bytes" -> Blobs
      [] f = "host" -> Strings
      [] f = "port" -> Ports
      [] f = "decentralized_identity_evidence" -> Evidence

\* the nodes a request or a response announces
SamplePayload(vk, evidence) ==
    [canonical_address |-> 1, domain |-> <<104>>, timestamp_epoch |-> 1,
     verifying_key |-> vk, encrypting_key |-> 1, certificate_bytes |-> <<9>>,
     host |-> <<>>, port |-> 443, decentralized_identity_evidence |-> evidence]

AnnouncedNodes ==
    {NodeMetadata_new([key |-> 1], SamplePayload(1, None)),
     NodeMetadata_new([key |-> 2], SamplePayload(2, Some(<<>>)))}

AnnounceLists == SeqsUpTo(AnnouncedNodes, MaxAnnounce)

Checksums == {3}
Capsules == {[for |-> 1], [for |-> 2]}
RKitAddresses == {1, 2, 3}

\* ------------------------------------------------------------------ state
VARIABLES
    tmArgs,     \* the arguments TreasureMap::new was called with
    tmap,       \* its outcome: not yet called, a panic, or the map
    emap,       \* the encrypted map in flight, with who made it and for whom
    dec,        \* the last EncryptedTreasureMap::decrypt call and its outcome
    nmMade,     \* the signer and payload NodeMetadata::new was called with
    nm,         \* the NodeMetadata object
    nmVerified, \* the last NodeMetadata::verify call and its outcome
    mrMade,     \* the signer and payload MetadataResponse::new was called with
    mr,         \* the MetadataResponse object
    mrVerified, \* the last MetadataResponse::verify call and its outcome
    mk,         \* the message kit a retrieval kit started from
    recorded,   \* the addresses queried so far, in order
    kit,        \* the retrieval kit
    envVal,     \* the protocol object last serialized
    envBytes,   \* the buffer on the wire
    envParsed   \* the last from_bytes call and its outcome

tmVars == <<tmArgs, tmap, emap, dec>>
nodeVars == <<nmMade, nm, nmVerified>>
respVars == <<mrMade, mr, mrVerified>>
kitVars == <<mk, recorded, kit>>
envVars == <<envVal, envBytes, envParsed>>

vars == <<tmVars, nodeVars, respVars, kitVars, envVars>>

Init ==
    /\ tmArgs = NotYet /\ tmap = NotYet /\ emap = NotYet /\ dec = NotYet
    /\ nmMade = NotYet /\ nm = NotYet /\ nmVerified = NotYet
    /\ mrMade = NotYet /\ mr = NotYet /\ mrVerified = NotYet
    /\ mk = NotYet /\ recorded = <<>> /\ kit = NotYet
    /\ envVal = NotYet /\ envBytes = NotYet /\ envParsed = NotYet

\* ---------------------------------------------------- treasure map protocol
\* TreasureMap::new
NewTreasureMap ==
    /\ tmap.kind = "NotYet"
    /\ \E signer \in Signers, hrac \in HRACs, pek \in PolicyKeys,
          assigned \in SeqsUpTo(Assignments, MaxAssign), threshold \in 0..MaxThreshold :
          /\ tmArgs' = [kind |-> "Args", signer |-> signer, hrac |-> hrac,
                        policy_encrypting_key |-> pek, assigned_kfrags |-> assigned,
                        threshold |-> threshold]
          /\ tmap' = TreasureMap_new(signer, hrac, pek, assigned, threshold)
    /\ UNCHANGED <<emap, dec, nodeVars, respVars, kitVars, envVars>>

\* TreasureMap::encrypt
Encrypt ==
    /\ tmap.kind = "Map"
    /\ emap.kind = "NotYet"
    /\ \E signer \in Signers, recipient \in KeyIds, ok \in BOOLEAN :
          LET r == TreasureMap_encrypt(tmap.map, signer, recipient, ok)
          IN  emap' = IF r.kind = "Err" THEN r
                      ELSE [kind |-> "Ok", val |-> r.val, origin |-> "publisher",
                            signer |-> signer, recipient |-> recipient]
    /\ UNCHANGED <<tmArgs, tmap, dec, nodeVars, respVars, kitVars, envVars>>

\* The first recipient opens the blob and seals the same authorized map for another.
Reencrypt ==
    /\ emap.kind = "Ok"
    /\ emap.origin = "publisher"
    /\ \E r2 \in KeyIds \ {emap.recipient} :
          LET plaintext == decrypt_original([secret |-> emap.recipient],
                                            emap.val.capsule, emap.val.ciphertext)
          IN  emap' = [emap EXCEPT !.val = encrypt(r2, plaintext.val, TRUE).val,
                                   !.origin = "reencrypted"]
    /\ UNCHANGED <<tmArgs, tmap, dec, nodeVars, respVars, kitVars, envVars>>

\* A sender seals bytes that are no AuthorizedTreasureMap envelope.
SealOther ==
    /\ emap.kind = "Ok"
    /\ emap.origin = "publisher"
    /\ \E junk \in {"tmap", "truncated", "minor"} :
          LET auth == AuthorizedTreasureMap_new(emap.signer, emap.recipient, tmap.map)
              good == AuthorizedTreasureMap_to_bytes(auth)
              bytes == CASE junk = "tmap" -> TreasureMap_to_bytes(tmap.map)
                         [] junk = "truncated" -> SubSeq(good, 1, Len(good) - 1)
                         [] junk = "minor" -> [good EXCEPT ![HeaderLen] = 1]
          IN  emap' = [emap EXCEPT !.val = encrypt(emap.recipient, bytes, TRUE).val,
                                   !.origin = junk]
    /\ UNCHANGED <<tmArgs, tmap, dec, nodeVars, respVars, kitVars, envVars>>

\* EncryptedTreasureMap::decrypt
Decrypt ==
    /\ emap.kind = "Ok"
    /\ \E sk \in SecretKeys, key \in KeyIds :
          dec' = [kind |-> "Called", on |-> emap, sk |-> sk,
                  publisher_verifying_key |-> key,
                  res |-> EncryptedTreasureMap_decrypt(emap.val, sk, key)]
    /\ UNCHANGED <<tmArgs, tmap, emap, nodeVars, respVars, kitVars, envVars>>

TMNext == NewTreasureMap \/ Encrypt \/ Reencrypt \/ SealOther \/ Decrypt

SpecTMap == Init /\ [][TMNext]_vars

\* ------------------------------------------------------------ node metadata
\* NodeMetadata::new
NewNodeMetadata ==
    /\ nm.kind = "NotYet"
    /\ \E signer \in Signers, payload \in NodeMetadataPayloads :
          /\ nmMade' = [kind |-> "Made", signer |-> signer, payload |-> payload]
          /\ nm' = [kind |-> "NodeMetadata", obj |-> NodeMetadata_new(signer, payload)]
    /\ UNCHANGED <<nmVerified, tmVars, respVars, kitVars, envVars>>

\* `payload` is a public field: a holder of the object overwrites one field of it.
AlterPayload ==
    /\ nm.kind = "NodeMetadata"
    /\ nm.obj.payload = nmMade.payload
    /\ \E f \in PayloadFields :
          \E v \in FieldDomain(f) \ {nm.obj.payload[f]} :
             nm' = [nm EXCEPT !.obj.payload[f] = v]
    /\ UNCHANGED <<nmMade, nmVerified, tmVars, respVars, kitVars, envVars>>

\* NodeMetadata::verify
VerifyNodeMetadata ==
    /\ nm.kind = "NodeMetadata"
    /\ nmVerified' = [kind |-> "Called", on |-> nm.obj,
                      res |-> NodeMetadata_verify(nm.obj)]
    /\ UNCHANGED <<nmMade, nm, tmVars, respVars, kitVars, envVars>>

NodeNext == NewNodeMetadata \/ AlterPayload \/ VerifyNodeMetadata

SpecNode == Init /\ [][NodeNext]_vars

\* -------------------------------------------------------- metadata response
\* MetadataResponse::new
NewMetadataResponse ==
    /\ mr.kind = "NotYet"
    /\ \E signer \in Signers, timestamp \in Timestamps, nodes \in AnnounceLists :
          LET response == VerifiedMetadataResponse_new(timestamp, nodes)
          IN  /\ mrMade' = [kind |-> "Made", signer |-> signer, response |-> response]
              /\ mr' = [kind |-> "MetadataResponse",
                        obj |-> MetadataResponse_new(signer, response)]
    /\ UNCHANGED <<mrVerified, tmVars, nodeVars, kitVars, envVars>>

\* The stored response is changed after signing: its timestamp ...
AlterTimestamp ==
    /\ mr.kind = "MetadataResponse"
    /\ mr.obj.response = mrMade.response
    /\ \E timestamp \in Timestamps \ {mr.obj.response.timestamp_epoch} :
          mr' = [mr EXCEPT !.obj.response.timestamp_epoch = timestamp]
    /\ UNCHANGED <<mrMade, mrVerified, tmVars, nodeVars, kitVars, envVars>>

\* ... or its list of announced nodes.
AlterAnnounceNodes ==
    /\ mr.kind = "MetadataResponse"
    /\ mr.obj.response = mrMade.response
    /\ \E nodes \in AnnounceLists \ {mr.obj.response.announce_nodes} :
          mr' = [mr EXCEPT !.obj.response.announce_nodes = nodes]
    /\ UNCHANGED <<mrMade, mrVerified, tmVars, nodeVars, kitVars, envVars>>

\* MetadataResponse::verify
VerifyMetadataResponse ==
    /\ mr.kind = "MetadataResponse"
    /\ \E pk \in KeyIds :
          mrVerified' = [kind |-> "Called", on |-> mr.obj, verifying_pk |-> pk,
                         res |-> MetadataResponse_verify(mr.obj, pk)]
    /\ UNCHANGED <<mrMade, mr, tmVars, nodeVars, kitVars, envVars>>

RespNext ==
    NewMetadataResponse \/ AlterTimestamp \/ AlterAnnounceNodes \/ VerifyMetadataResponse

SpecResp == Init /\ [][RespNext]_vars

\* ------------------------------------------------------------ retrieval kit
\* RetrievalKit::from_message_kit
FromMessageKit ==
    /\ kit.kind = "NotYet"
    /\ \E capsule \in Capsules :
          LET message_kit == [capsule |-> capsule]
          IN  /\ mk' = [kind |-> "MessageKit", obj |-> message_kit]
              /\ kit' = [kind |-> "Kit", obj |-> RetrievalKit_from_message_kit(message_kit)]
    /\ UNCHANGED <<recorded, tmVars, nodeVars, respVars, envVars>>

\* One more address is queried: the kit is rebuilt with RetrievalKit::new from the
\* capsule and the addresses recorded so far.
RecordAddress ==
    /\ kit.kind = "Kit"
    /\ Len(recorded) < MaxRecorded
    /\ \E address \in RKitAddresses :
          /\ recorded' = Append(recorded, address)
          /\ kit' = [kit EXCEPT !.obj = RetrievalKit_new(kit.obj.capsule, recorded')]
    /\ UNCHANGED <<mk, tmVars, nodeVars, respVars, envVars>>

KitNext == FromMessageKit \/ RecordAddress

SpecRKit == Init /\ [][KitNext]_vars

\* ------------------------------------------------------------- the envelope
Types == {"NdMd", "MdRq", "MdRs", "RKit", "TMap", "AMap", "EMap"}

PublicTypes == Types \ {"AMap"}

BrandOf(T) ==
    CASE T = "NdMd" -> NdMdBrand
      [] T = "MdRq" -> MdRqBrand
      [] T = "MdRs" -> MdRsBrand
      [] T = "RKit" -> RKitBrand
      [] T = "TMap" -> TMapBrand
      [] T = "AMap" -> AMapBrand
      [] T = "EMap" -> EMapBrand

VersionOf(T) ==
    CASE T = "NdMd" -> NdMdVersion
      [] T = "MdRq" -> MdRqVersion
      [] T = "MdRs" -> MdRsVersion
      [] T = "RKit" -> RKitVersion
      [] T = "TMap" -> TMapVersion
      [] T = "AMap" -> AMapVersion
      [] T = "EMap" -> EMapVersion

ToBytes(T, x) ==
    CASE T = "NdMd" -> NodeMetadata_to_bytes(x)
      [] T = "MdRq" -> MetadataRequest_to_bytes(x)
      [] T = "MdRs" -> MetadataResponse_to_bytes(x)
      [] T = "RKit" -> RetrievalKit_to_bytes(x)
      [] T = "TMap" -> TreasureMap_to_bytes(x)
      [] T = "AMap" -> AuthorizedTreasureMap_to_bytes(x)
      [] T = "EMap" -> EncryptedTreasureMap_to_bytes(x)

UnversionedToBytes(T, x) ==
    CASE T = "NdMd" -> NodeMetadata_unversioned_to_bytes(x)
      [] T = "MdRq" -> MetadataRequest_unversioned_to_bytes(x)
      [] T = "MdRs" -> MetadataResponse_unversioned_to_bytes(x)
      [] T = "RKit" -> RetrievalKit_unversioned_to_bytes(x)
      [] T = "TMap" -> TreasureMap_unversioned_to_bytes(x)
      [] T = "AMap" -> AuthorizedTreasureMap_unversioned_to_bytes(x)
      [] T = "EMap" -> EncryptedTreasureMap_unversioned_to_bytes(x)

FromBytes(T, bytes) ==
    CASE T = "NdMd" -> NodeMetadata_from_bytes(bytes)
      [] T = "MdRq" -> MetadataRequest_from_bytes(bytes)
      [] T = "MdRs" -> MetadataResponse_from_bytes(bytes)
      [] T = "RKit" -> RetrievalKit_from_bytes(bytes)
      [] T = "TMap" -> TreasureMap_from_bytes(bytes)
      [] T = "AMap" -> AuthorizedTreasureMap_from_bytes(bytes)
      [] T = "EMap" -> EncryptedTreasureMap_from_bytes(bytes)

SampleMaps ==
    {TreasureMap_new([key |-> 1], 7, 1, assigned, 1).map :
        assigned \in SeqsUpTo(Assignments, 2) \ {<<>>}}

SampleAuthorized == {AuthorizedTreasureMap_new([key |-> 2], 1, m) : m \in SampleMaps}

Values(T) ==
    CASE T = "NdMd" ->
            {NodeMetadata_new([key |-> 1], [SamplePayload(1, e) EXCEPT !.certificate_bytes = c]) :
                e \in Evidence, c \in Blobs}
      [] T = "MdRq" -> {MetadataRequest_new(c, nodes) : c \in Checksums, nodes \in AnnounceLists}
      [] T = "MdRs" ->
            {MetadataResponse_new([key |-> 1], VerifiedMetadataResponse_new(t, nodes)) :
                t \in Timestamps, nodes \in AnnounceLists}
      [] T = "RKit" ->
            {RetrievalKit_new(c, s) : c \in {[for |-> 1]}, s \in SeqsUpTo(Addresses, 2)}
      [] T = "TMap" -> SampleMaps
      [] T = "AMap" -> SampleAuthorized
      [] T = "EMap" ->
            {TreasureMap_encrypt(m, [key |-> 2], 1, TRUE).val : m \in SampleMaps}

HeaderMajors == {0, 1, 2}
HeaderMinors == {0, 1, 2}

\* to_bytes of a protocol object
Serialize ==
    /\ envVal.kind = "NotYet"
    /\ \E T \in Types :
          \E x \in Values(T) :
             /\ envVal' = [kind |-> "Value", type |-> T, val |-> x]
             /\ envBytes' = [kind |-> "Bytes", origin |-> "to_bytes", data |-> ToBytes(T, x)]
    /\ envParsed' = NotYet
    /\ UNCHANGED <<tmVars, nodeVars, respVars, kitVars>>

\* The buffer arrives with another header in front of the same payload.
RewriteHeader ==
    /\ envBytes.kind = "Bytes"
    /\ envBytes.origin = "to_bytes"
    /\ \E T \in Types, major \in HeaderMajors, minor \in HeaderMinors :
          LET data == BrandOf(T) \o <<major, minor>> \o header_payload(envBytes.data)
          IN  /\ data # envBytes.data
              /\ envBytes' = [envBytes EXCEPT !.origin = "rewritten", !.data = data]
    /\ UNCHANGED <<envVal, envParsed, tmVars, nodeVars, respVars, kitVars>>

\* The buffer arrives cut short inside the payload.
Truncate ==
    /\ envBytes.kind = "Bytes"
    /\ envBytes.origin = "to_bytes"
    /\ Len(envBytes.data) > HeaderLen
    /\ envBytes' = [envBytes EXCEPT !.origin = "truncated",
                                    !.data = SubSeq(envBytes.data, 1, Len(envBytes.data) - 1)]
    /\ UNCHANGED <<envVal, envParsed, tmVars, nodeVars, respVars, kitVars>>

\* T::from_bytes on the buffer
Parse ==
    /\ envBytes.kind = "Bytes"
    /\ \E T \in Types :
          envParsed' = [kind |-> "Called", as |-> T, of |-> envVal, bytes |-> envBytes,
                        res |-> FromBytes(T, envBytes.data)]
    /\ UNCHANGED <<envVal, envBytes, tmVars, nodeVars, respVars, kitVars>>

EnvNext == Serialize \/ RewriteHeader \/ Truncate \/ Parse

SpecEnv == Init /\ [][EnvNext]_vars

\* ================================================================== claims

\* ---- C1: substitution resistance.  A map authorized and encrypted for R1 is
\* never returned by decrypt called with another recipient's secret key and the
\* publisher's verifying key: not from the blob as the publisher made it, and
\* not from a blob in which the same authorized map was sealed again for R2,
\* where the result is absence.
C1_SubstitutionResistance ==
    (/\ dec.kind = "Called"
     /\ dec.on.origin \in {"publisher", "reencrypted"}
     /\ public_key(dec.sk) # dec.on.recipient
     /\ dec.publisher_verifying_key = verifying_key(dec.on.signer))
    => /\ dec.res.kind # "Some"
       /\ (dec.on.origin = "reencrypted" /\ dec.on.val.capsule.for = public_key(dec.sk))
             => dec.res = None

C1_Witness ==
    /\ dec.kind = "Called"
    /\ dec.on.origin = "reencrypted"
    /\ dec.on.val.capsule.for = public_key(dec.sk)
    /\ public_key(dec.sk) # dec.on.recipient
    /\ dec.publisher_verifying_key = verifying_key(dec.on.signer)
    /\ dec.res = None

\* ---- C2: encrypt / decrypt round trip.  When encrypt succeeded, decrypt with the
\* recipient's secret key and the encrypting signer's verifying key returns the
\* map that was encrypted, field for field and destination for destination.
C2_EncryptDecryptRoundTrip ==
    (/\ dec.kind = "Called"
     /\ dec.on.origin = "publisher"
     /\ public_key(dec.sk) = dec.on.recipient
     /\ dec.publisher_verifying_key = verifying_key(dec.on.signer))
    => dec.res = Some(tmap.map)

C2_Witness ==
    /\ dec.kind = "Called"
    /\ dec.on.origin = "publisher"
    /\ public_key(dec.sk) = dec.on.recipient
    /\ dec.publisher_verifying_key = verifying_key(dec.on.signer)
    /\ dec.res.kind = "Some"
    /\ Len(dec.res.val.destinations) >= 2
    /\ dec.res.val.destinations[1][1] # dec.res.val.destinations[2][1]

\* ---- C3: a decryption or envelope-parse failure inside decrypt reaches the caller
\* as an error value, not as a panic.
DecryptionFails(d) ==
    \/ d.on.val.capsule.for # public_key(d.sk)
    \/ d.on.origin \in {"tmap", "truncated", "minor"}

C3_DecryptFailureIsAnError ==
    (dec.kind = "Called" /\ DecryptionFails(dec)) => dec.res.kind = "Err"

\* ---- C4: TreasureMap::new panics exactly when the threshold is 0 or exceeds the
\* number of assignments; otherwise the map has that threshold, one destination
\* per assignment with the addresses in input order (duplicates kept), and the
\* signer's verifying key as publisher_verifying_key.
C4_NewPrecondition ==
    tmArgs.kind = "Args" =>
        LET t == tmArgs.threshold
            A == tmArgs.assigned_kfrags
        IN  /\ tmap.kind \in {"Panic", "Map"}
            /\ tmap.kind = "Panic" <=> (t = 0 \/ Len(A) < t)
            /\ tmap.kind = "Map" =>
                  /\ tmap.map.threshold = t
                  /\ t >= 1
                  /\ Len(tmap.map.destinations) = Len(A)
                  /\ Len(A) >= t
                  /\ \A i \in 1..Len(A) : tmap.map.destinations[i][1] = A[i][1]
                  /\ tmap.map.publisher_verifying_key = verifying_key(tmArgs.signer)

C4_Witness ==
    /\ tmArgs.kind = "Args"
    /\ tmap.kind = "Map"
    /\ Len(tmArgs.assigned_kfrags) = tmArgs.threshold
    /\ tmArgs.threshold = 2
    /\ tmap.map.destinations[1][1] = tmap.map.destinations[2][1]

\* ---- C5: envelope gating.  The seven brands are pairwise distinct and every
\* type is at version (1, 0).  T::from_bytes fails with BrandMismatch when the
\* brand is not T's (so on the bytes of any other type), else with
\* MajorVersionMismatch when major is not 1, else with MinorVersionTooNew when
\* minor is above 0; the payload is deserialized only past all three, and its
\* failure is DeserializationError.
C5_EnvelopeGating ==
    /\ \A T1, T2 \in Types : T1 # T2 => BrandOf(T1) # BrandOf(T2)
    /\ \A T \in Types : VersionOf(T) = <<1, 0>>
    /\ envParsed.kind = "Called" =>
          LET b == envParsed.bytes.data
              T == envParsed.as
          IN  /\ envParsed.res =
                    IF SubSeq(b, 1, 4) # BrandOf(T) THEN Err("BrandMismatch")
                    ELSE IF b[5] # 1 THEN Err("MajorVersionMismatch")
                    ELSE IF b[6] > 0 THEN Err("MinorVersionTooNew")
                    ELSE IF envParsed.bytes.origin = "truncated"
                         THEN Err("DeserializationError")
                    ELSE envParsed.res
              /\ (envParsed.bytes.origin = "to_bytes" /\ envParsed.of.type # T)
                    => envParsed.res = Err("BrandMismatch")
              /\ envParsed.res.kind = "Ok" => (SubSeq(b, 1, 4) = BrandOf(T) /\ b[5] = 1 /\ b[6] = 0)

C5_Witness ==
    /\ envParsed.kind = "Called"
    /\ envParsed.as = "TMap"
    /\ SubSeq(envParsed.bytes.data, 1, 4) = TMapBrand
    /\ envParsed.bytes.data[5] = 1
    /\ envParsed.bytes.data[6] = 1
    /\ envParsed.res = Err("MinorVersionTooNew")

\* ---- C6: envelope round trip.  For each of the six public message types,
\* to_bytes(x) is brand, major, minor, then the unversioned bytes of x, and
\* from_bytes of it yields x again, also with no announced nodes and with the
\* identity evidence absent or of length zero.
C6_EnvelopeRoundTrip ==
    (/\ envParsed.kind = "Called"
     /\ envParsed.bytes.origin = "to_bytes"
     /\ envParsed.as = envParsed.of.type
     /\ envParsed.as \in PublicTypes)
    => /\ envParsed.res = Ok(envParsed.of.val)
       /\ envParsed.bytes.data =
             BrandOf(envParsed.as) \o VersionOf(envParsed.as)
                \o UnversionedToBytes(envParsed.as, envParsed.of.val)

C6_Witness ==
    /\ envParsed.kind = "Called"
    /\ envParsed.bytes.origin = "to_bytes"
    /\ envParsed.as = "NdMd"
    /\ envParsed.of.type = "NdMd"
    /\ envParsed.of.val.payload.decentralized_identity_evidence = Some(<<>>)
    /\ envParsed.res.kind = "Ok"
    /\ envParsed.res.val.payload.decentralized_identity_evidence = Some(<<>>)

\* ---- C7: NodeMetadata self-consistency.  verify() of NodeMetadata::new(S, P) is
\* true exactly when P.verifying_key is S's verifying key, and false once any
\* payload field differs from what was signed; a verify call leaves the object
\* as it was.
SignedOrAltered ==
    nmVerified.kind = "Called" =>
        /\ nmVerified.on.payload = nmMade.payload
              => nmVerified.res = (nmMade.payload.verifying_key = verifying_key(nmMade.signer))
        /\ nmVerified.on.payload # nmMade.payload => nmVerified.res = FALSE

VerifyLeavesObject == nmVerified' # nmVerified => nm' = nm

C7_NodeMetadataSelfConsistent == []SignedOrAltered /\ [][VerifyLeavesObject]_vars

C7_Witness ==
    /\ nmVerified.kind = "Called"
    /\ nmMade.payload.verifying_key = verifying_key(nmMade.signer)
    /\ nmVerified.on.payload # nmMade.payload
    /\ nmVerified.on.payload.verifying_key = nmMade.payload.verifying_key
    /\ nmVerified.res = FALSE

\* ---- C8: MetadataResponse authenticity.  verify(pk) of MetadataResponse::new(X, R)
\* returns R under X's verifying key and nothing under any other key; once the
\* timestamp or the node list was changed after signing it returns nothing under
\* every key, whatever the embedded nodes' own signatures say.  What it returns is
\* always the payload that was signed.
C8_ResponseAuthentic ==
    mrVerified.kind = "Called" =>
        /\ mrVerified.on.response = mrMade.response
              => mrVerified.res =
                    IF mrVerified.verifying_pk = verifying_key(mrMade.signer)
                    THEN Some(mrMade.response) ELSE None
        /\ mrVerified.on.response # mrMade.response => mrVerified.res = None
        /\ mrVerified.res.kind = "Some" => mrVerified.res.val = mrMade.response

C8_Witness ==
    /\ mrVerified.kind = "Called"
    /\ mrVerified.verifying_pk = verifying_key(mrMade.signer)
    /\ mrVerified.on.response.timestamp_epoch # mrMade.response.timestamp_epoch
    /\ mrVerified.on.response.announce_nodes # <<>>
    /\ \A i \in DOMAIN mrVerified.on.response.announce_nodes :
          NodeMetadata_verify(mrVerified.on.response.announce_nodes[i])
    /\ mrVerified.res = None

\* ---- C9: retrieval kit accumulation.  The kit starts from the message kit's
\* capsule with no queried address; after any recordings it holds exactly the
\* distinct addresses recorded, whatever their order and repetitions, the
\* capsule is the message kit's, and a recording never removes an address.
KitExact ==
    kit.kind = "Kit" =>
        /\ kit.obj.capsule = mk.obj.capsule
        /\ kit.obj.queried_addresses = {recorded[i] : i \in DOMAIN recorded}

KitGrows ==
    (kit.kind = "Kit" /\ kit'.kind = "Kit")
        => kit.obj.queried_addresses \subseteq kit'.obj.queried_addresses

C9_KitAccumulates == []KitExact /\ [][KitGrows]_vars

C9_Witness ==
    /\ kit.kind = "Kit"
    /\ Len(recorded) = 3
    /\ recorded[1] = recorded[3]
    /\ recorded[1] # recorded[2]
    /\ Cardinality(kit.obj.queried_addresses) = 2

\* ---- C10: publisher binding at decrypt.  For a map encrypted with signer S for
\* the recipient, decrypt with the recipient's secret key returns the map exactly
\* when the key given is S's verifying key and nothing otherwise; the map's own
\* publisher_verifying_key plays no part and comes back as TreasureMap::new set it.
C10_PublisherBinding ==
    (/\ dec.kind = "Called"
     /\ dec.on.origin = "publisher"
     /\ public_key(dec.sk) = dec.on.recipient)
    => /\ dec.res = Some(tmap.map)
             <=> dec.publisher_verifying_key = verifying_key(dec.on.signer)
       /\ dec.publisher_verifying_key # verifying_key(dec.on.signer) => dec.res = None
       /\ dec.res.kind = "Some"
             => dec.res.val.publisher_verifying_key = verifying_key(tmArgs.signer)

C10_Witness ==
    /\ dec.kind = "Called"
    /\ dec.on.origin = "publisher"
    /\ public_key(dec.sk) = dec.on.recipient
    /\ verifying_key(dec.on.signer) # tmap.map.publisher_verifying_key
    /\ dec.publisher_verifying_key = verifying_key(dec.on.signer)
    /\ dec.res = Some(tmap.map)

====
